---- MODULE Spec2Model ----
(***************************************************************************)
(* State-machine model of the movie recommendation backend:               *)
(*   - backend/cache.py: the module-level Redis client, the cache_result  *)
(*     decorator (cache-aside, fail-open) and invalidate_cache;           *)
(*   - backend/services/recommendation_service.py: the embedding table,   *)
(*     recommend_for_user (decorated with cache_result) and               *)
(*     recommend_cold_start with its helpers;                             *)
(*   - the repositories (vector index, metadata store) as collaborators   *)
(*     whose answers are chosen nondeterministically within their         *)
(*     contracts;                                                         *)
(*   - backend/features.py, backend/middleware/middleware.py and          *)
(*     backend/main.py: the experiment assignment, ABTestingMiddleware    *)
(*     and the two recommendation endpoints.                              *)
(* A call of a decorated function runs in a frame (one per worker); the   *)
(* wrapper is split at its I/O points (read, compute, write) so that      *)
(* calls of different workers interleave as threads of the server do.     *)
(***************************************************************************)
EXTENDS Integers, Sequences, FiniteSets, TLC

VARIABLES
    redis_client,     \* cache._redis_client: "None" or "client"
    store,            \* contents of the Redis backend: key -> entry
    now,              \* wall clock, in seconds
    frames,           \* per worker: the frame of its current / last call
    user_embeddings,  \* RecommendationService._user_embeddings
    user_encoder      \* RecommendationService._user_encoder

vars == <<redis_client, store, now, frames, user_embeddings, user_encoder>>

----------------------------------------------------------------------------
(* Bounds of the model *)

MaxArg == 2           \* first arguments / user ids are 1..MaxArg
MaxTopK == 2          \* requested bounds are 1..MaxTopK
MaxSeeds == 1         \* longest seed list of a cold-start request
TickStep == 150       \* seconds the clock advances in one Tick
MaxTime == 300        \* the clock stops here
MaxCands == 3         \* longest candidate list given to a helper directly
MaxSubject == 3       \* the subjects of the experiment are 1..MaxSubject

(* Program constants *)

DefaultTtl == 300     \* cache_result(ttl_seconds=300)
SearchLimit == 5      \* search_service.search(query, limit=5)
CriteriaLimit == 50   \* find_movies_by_criteria(..., limit=50)

\* the server's worker threads; Main serves the sequential runs
Procs == {"w1", "w2"}
Main == "w1"
Args == 1..MaxArg
TopKs == 1..MaxTopK

None == "None"

----------------------------------------------------------------------------
(* Python values *)

NoScore == -100

\* {"id": .., "title": .., ...}: a plain dict
Dict(id, score) == [kind |-> "dict", id |-> id, score |-> score]

\* models.Movie: a pydantic object
MovieObj(id, score) == [kind |-> "Movie", id |-> id, score |-> score]

\* str(n) of an integer, as the f-string of the cache key formats it
StrOfInt(n) == ToString(n)

\* str(self) of the service singleton of dependencies.py: the default
\* object representation (the class defines no __str__)
StrOfSelf == "<services.recommendation_service.RecommendationService object>"

\* f"{key_prefix}:{args[0]}", args[0] already formatted
CacheKey(key_prefix, arg0) == key_prefix \o ":" \o arg0

\* @cache_result(key_prefix="rec", ...)
Prefixes == {"rec"}

Keys == {CacheKey(p, a) : p \in Prefixes, a \in {StrOfInt(n) : n \in Args} \cup {StrOfSelf}}

TypeError == [error |-> "TypeError"]

\* json.dumps with the default encoder accepts dicts of plain values and
\* raises TypeError on any other object
JsonDumpsAny(value) ==
    [json |-> [i \in 1..Len(value) |-> [id |-> value[i].id, score |-> value[i].score]]]

JsonDumps(value) ==
    IF \E i \in 1..Len(value) : value[i].kind # "dict"
    THEN TypeError
    ELSE [json |-> [i \in 1..Len(value) |-> [id |-> value[i].id, score |-> value[i].score]]]

\* json.loads: a JSON array of objects becomes a list of dicts
JsonLoads(payload) ==
    [i \in 1..Len(payload.json) |-> Dict(payload.json[i].id, payload.json[i].score)]

----------------------------------------------------------------------------
(* The Redis backend *)

NoEntry == [present |-> FALSE]

Entry(payload, expire_at) == [present |-> TRUE, payload |-> payload, expire_at |-> expire_at]

Present(key) == store[key].present

\* GET: the payload stored under key, unless it has expired
Live(key) == store[key].present /\ now < store[key].expire_at

\* outcomes of one backend command: it answers, or the connection fails
\* (redis.exceptions.ConnectionError / TimeoutError)
Outcomes == {"ok", "error"}

----------------------------------------------------------------------------
(* Frames *)

\* pc, the call's arguments, the wrapper's locals (key, client, cached,
\* result), what the call gave back (out, ret) and a record of what it did:
\* read / write are the outcomes of the two backend commands, calls counts
\* the invocations of the wrapped function, info is what the function's
\* body did (its path, its queries, the index's answer and the sample taken
\* of it, the candidates removed as seeds and the number found before the
\* cut to top_k), at is the time the call ended,
\* has_vector whether the user had an embedding when the call began.  An
\* idle frame keeps in last what the worker's previous call was, and
\* follows_miss says of a call that the previous call was a call of the same
\* function for the same argument that computed and returned its result,
\* ended less than ttl ago and met no backend error.
NoInfo ==
    [path |-> "none", known |-> FALSE, index_calls |-> 0, index_limit |-> 0,
     index_failed |-> FALSE, meta_calls |-> 0, meta_failed |-> FALSE,
     points |-> <<>>, sample |-> <<>>, criteria_calls |-> 0,
     seeds_in |-> <<>>, seeds |-> <<>>, removed |-> {},
     found |-> 0,
     genres |-> <<>>, keywords |-> <<>>, query |-> None]

NoLast == [fn |-> "none", arg |-> 0, at |-> 0]

\* the HTTP side of a call that serves a request: the route, the request's
\* X-User-ID header, whether ABTestingMiddleware is in the application's
\* stack, request.scope["ab_group"] as the endpoint sees it, the status, the
\* recommendations and the ab_group field of the response and its
\* X-AB-Group header
NoHttp ==
    [route |-> "none", x_user_id |-> None, installed |-> FALSE,
     scope_ab_group |-> None, status |-> 0, body |-> <<>>, ab_group |-> None,
     x_ab_group |-> None]

\* RecommendationResponse(recommendations=movies): each item is validated as
\* a Movie; a dict without a score gets the field's default, 0.0
RecommendationResponse(movies) ==
    [i \in DOMAIN movies |->
        [kind |-> "Movie", id |-> movies[i].id,
         score |-> IF movies[i].score = NoScore THEN 0 ELSE movies[i].score]]

IdleFrame ==
    [pc |-> "idle", fn |-> "none", ttl |-> 0, arg |-> 0,
     top_k |-> 0, ab_group |-> "", key |-> "", client |-> None,
     read |-> "none", cached |-> <<>>, calls |-> 0, result |-> <<>>,
     write |-> "none", out |-> "none", ret |-> <<>>, info |-> NoInfo,
     at |-> 0, follows_miss |-> FALSE, has_vector |-> FALSE, last |-> NoLast,
     input |-> <<>>, http |-> NoHttp]

CanCall(p) == frames[p].pc = "idle"

\* the caller takes the result; the worker is free for its next call
Summary(f) ==
    IF /\ f.fn \in {"get_recommendations", "recommend_for_user"}
       /\ f.calls = 1 /\ f.out = "returned"
       /\ f.read # "error" /\ f.write # "error"
    THEN [fn |-> f.fn, arg |-> f.arg, at |-> f.at]
    ELSE NoLast

Return(p) ==
    /\ frames[p].pc = "done"
    /\ frames' = [frames EXCEPT ![p] = [IdleFrame EXCEPT !.last = Summary(frames[p])]]
    /\ UNCHANGED <<redis_client, store, now, user_embeddings, user_encoder>>

\* the endpoint's answer once the call it made has ended: the response
\* model with the variant it passed on, or the 500 of its except clause
Respond(f) ==
    IF f.http.route = "none" \/ f.pc # "done" THEN f
    ELSE IF f.out = "raised" THEN [f EXCEPT !.http.status = 500]
    ELSE [f EXCEPT !.http.status = 200, !.http.ab_group = f.ab_group,
                   !.http.body = RecommendationResponse(f.ret)]

\* cache_result.wrapper, up to the read: the key is built from the first
\* positional argument and the module's client is read once
FollowsMiss(prev, fn, arg, ttl_seconds) ==
    /\ prev.last.fn = fn /\ prev.last.arg = arg
    /\ now < prev.last.at + ttl_seconds

WrapperEnter(prev, fn, key_prefix, ttl_seconds, arg0, arg, top_k, ab_group) ==
    [IdleFrame EXCEPT
        !.fn = fn, !.ttl = ttl_seconds, !.arg = arg,
        !.top_k = top_k, !.ab_group = ab_group,
        !.key = CacheKey(key_prefix, arg0),
        !.client = redis_client,
        !.follows_miss = FollowsMiss(prev, fn, arg, ttl_seconds),
        !.pc = IF redis_client # None THEN "read" ELSE "compute"]

\* a call get_recommendations(a) of a plain decorated function, as in
\* tests/test_cache.py
CallPlain(p) ==
    /\ CanCall(p)
    /\ \E key_prefix \in Prefixes, a \in Args :
          frames' = [frames EXCEPT ![p] =
              WrapperEnter(@, "get_recommendations", key_prefix, DefaultTtl,
                           StrOfInt(a), a, 0, "")]
    /\ UNCHANGED <<redis_client, store, now, user_embeddings, user_encoder>>

\* wrapper: cached = client.get(cache_key); a hit returns json.loads(cached)
HitFrameCompute(f) ==
    [f EXCEPT !.read = "hit", !.cached = store[f.key].payload, !.calls = 1,
              !.result = JsonLoads(store[f.key].payload), !.pc = "write"]

HitFrame(f) ==
    [f EXCEPT !.read = "hit", !.cached = store[f.key].payload,
              !.ret = JsonLoads(store[f.key].payload),
              !.out = "returned", !.at = now, !.pc = "done"]

CacheRead(p) ==
    /\ frames[p].pc = "read"
    /\ \E outcome \in Outcomes :
          frames' = [frames EXCEPT ![p] =
              IF outcome = "error" THEN [@ EXCEPT !.read = "error", !.pc = "compute"]
              ELSE IF Live(@.key) THEN Respond(HitFrame(@))
              ELSE [@ EXCEPT !.read = "miss", !.pc = "compute"]]
    /\ UNCHANGED <<redis_client, store, now, user_embeddings, user_encoder>>

\* results the plain function of the tests computes: lists of dicts
FreshResults == {<<>>, <<Dict(1, NoScore)>>, <<Dict(2, NoScore)>>}

\* wrapper: result = func(*args, **kwargs); without a client it is returned
\* at once
AfterCompute(f, result) ==
    IF f.client = None
    THEN [f EXCEPT !.calls = @ + 1, !.result = result, !.ret = result,
                   !.out = "returned", !.at = now, !.pc = "done"]
    ELSE [f EXCEPT !.calls = @ + 1, !.result = result, !.pc = "write"]

ComputePlain(p) ==
    /\ frames[p].pc = "compute"
    /\ frames[p].fn = "get_recommendations"
    /\ \E result \in FreshResults :
          frames' = [frames EXCEPT ![p] = AfterCompute(@, result)]
    /\ UNCHANGED <<redis_client, store, now, user_embeddings, user_encoder>>

\* an entry with a note of the call that wrote it: the user, top_k and
\* variant its payload was computed for (the backend stores no such note)
Stamp(entry, f) ==
    [present |-> TRUE, payload |-> entry.payload, expire_at |-> entry.expire_at,
     by |-> [arg |-> f.arg, top_k |-> f.top_k, ab_group |-> f.ab_group,
             path |-> f.info.path]]

\* wrapper: client.setex(cache_key, ttl_seconds, json.dumps(result)); the
\* argument is encoded before the command is sent, and only connection and
\* timeout errors are caught
CacheWriteWith(p, noted) ==
    /\ frames[p].pc = "write"
    /\ LET f == frames[p]
           payload == JsonDumps(f.result)
       IN IF payload = TypeError
          THEN /\ frames' = [frames EXCEPT ![p] =
                     Respond([@ EXCEPT !.write = "typeerror", !.out = "raised",
                                       !.at = now, !.pc = "done"])]
               /\ store' = store
          ELSE \E outcome \in Outcomes :
               /\ frames' = [frames EXCEPT ![p] =
                     Respond([@ EXCEPT !.write = outcome, !.ret = f.result,
                                       !.out = "returned", !.at = now, !.pc = "done"])]
               /\ store' = IF outcome = "ok"
                           THEN [store EXCEPT ![f.key] =
                                    IF noted THEN Stamp(Entry(payload, now + f.ttl), f)
                                    ELSE Entry(payload, now + f.ttl)]
                           ELSE store
    /\ UNCHANGED <<redis_client, now, user_embeddings, user_encoder>>

CacheWrite(p) == CacheWriteWith(p, FALSE)

NotedWrite(p) == CacheWriteWith(p, TRUE)

\* get_redis_client: the client is created on first use and kept only if
\* the ping is answered
GetRedisClient(outcome) ==
    IF redis_client # None THEN redis_client
    ELSE IF outcome = "ok" THEN "client" ELSE None

\* bool(client.delete(cache_key)), False without a client and on a
\* connection or timeout error: DEL counts the keys it removed, and an
\* expired key is not there to remove
DeleteAttempted(client, del, cache_key) == client # None /\ del = "ok"

ClientDelete(client, del, cache_key) ==
    client # None /\ del = "ok" /\ Live(cache_key)

\* invalidate_cache(key_prefix, key_id): True iff the backend deleted an
\* entry; no client, and a connection or timeout error, give False
InvalidateCache(p) ==
    /\ CanCall(p)
    /\ \E key_prefix \in Prefixes, key_id \in Args, ping \in Outcomes, del \in Outcomes :
       LET client == GetRedisClient(ping)
           cache_key == CacheKey(key_prefix, StrOfInt(key_id))
           deleted == ClientDelete(client, del, cache_key)
       IN /\ redis_client' = client
          /\ store' = IF client # None /\ del = "ok"
                      THEN [store EXCEPT ![cache_key] = NoEntry]
                      ELSE store
          /\ frames' = [frames EXCEPT ![p] =
                [IdleFrame EXCEPT !.fn = "invalidate_cache", !.arg = key_id,
                                  !.key = cache_key, !.client = client,
                                  !.input = [existed |-> Live(cache_key)],
                                  !.write = IF client = None THEN "none" ELSE del,
                                  !.ret = <<deleted>>,
                                  !.out = "returned", !.at = now, !.pc = "done"]]
          /\ UNCHANGED <<now, user_embeddings, user_encoder>>

\* time passes
Tick ==
    /\ now + TickStep <= MaxTime
    /\ now' = now + TickStep
    /\ UNCHANGED <<redis_client, store, frames, user_embeddings, user_encoder>>

----------------------------------------------------------------------------
(* The collaborators' data: a small catalogue.  Movie 3 is indexed but has  *)
(* no metadata row; movie 4 has a row but no vector (train.py indexes only  *)
(* the movies of the training set, ingest_data.py loads every movie).       *)

\* rows of the movies table
MetaIds == {1, 2, 4, 5}

\* row[2].split("|") of a row's genres column
GenresOf(m) ==
    CASE m = 1 -> <<"Action", "Sci-Fi">>
      [] m = 2 -> <<"Comedy">>
      [] m = 5 -> <<"Action", "Drama">>
      [] OTHER -> <<"Action">>

\* the words of a row's title, in lower case
TitleWords(m) ==
    CASE m = 1 -> {"star", "wars"}
      [] m = 2 -> {"toy", "story"}
      [] m = 4 -> {"heat"}
      [] OTHER -> {"alien"}

\* points of the "movies" collection
IndexedIds == {1, 2, 3, 5}

\* user_encoder.classes_ of the artifact
KnownUserIds == {1}

\* str.lower
Lower(str) ==
    CASE str = "Action" -> "action"
      [] str = "Sci-Fi" -> "sci-fi"
      [] str = "Comedy" -> "comedy"
      [] str = "Drama" -> "drama"
      [] str = "Star" -> "star"
      [] OTHER -> str

Min(a, b) == IF a < b THEN a ELSE b

\* the sequences without repetition over S, of length <= n
InjSeqs(S, n) ==
    UNION {{seq \in [1..k -> S] : \A i, j \in 1..k : i # j => seq[i] # seq[j]} :
           k \in 0..Min(n, Cardinality(S))}

SeqIds(seq) == {seq[i] : i \in DOMAIN seq}

Ids(movies) == [i \in DOMAIN movies |-> movies[i].id]

----------------------------------------------------------------------------
(* repositories/vector_repository.py, repositories/movie_repository.py,    *)
(* services/search_service.py                                              *)

\* cosine scores, in tenths: the i-th point of an answer
ScoreOfRank(i) == 10 - i

\* VectorRepository.search_similar(query_vector, limit): the answers the
\* index may give: at most limit points, no movie twice, by descending score
SearchSimilar(limit) ==
    {[i \in DOMAIN seq |-> [movie_id |-> seq[i], score |-> ScoreOfRank(i)]] :
        seq \in InjSeqs(IndexedIds, limit)}

\* VectorRepository.get_vectors_by_ids(movie_ids): the ids whose point has a
\* vector (the vectors themselves are not modelled beyond their presence)
GetVectorsByIds(movie_ids) == SeqIds(movie_ids) \cap IndexedIds

\* MovieRepository.get_movies_by_ids(movie_ids): the keys of the dict
GetMoviesByIds(movie_ids) == SeqIds(movie_ids) \cap MetaIds

\* MovieRepository.find_movies_by_criteria: genres ILIKE %g% OR title ILIKE
\* %kw%, LIMIT limit; the answers the store may give, as sets of ids
CriteriaMatch(genres, keywords) ==
    {m \in MetaIds :
        \/ \E i \in DOMAIN genres, j \in DOMAIN GenresOf(m) :
              Lower(GenresOf(m)[j]) = Lower(genres[i])
        \/ \E i \in DOMAIN keywords : Lower(keywords[i]) \in TitleWords(m)}

FindAnyMovies(genres, keywords, limit) ==
    {rows \in SUBSET MetaIds : Cardinality(rows) = Min(limit, Cardinality(MetaIds))}

FindMoviesByCriteria(genres, keywords, limit) ==
    LET match == CriteriaMatch(genres, keywords)
    IN {rows \in SUBSET match : Cardinality(rows) = Min(limit, Cardinality(match))}

\* most hits of a content search that the model follows
MaxHits == 1

\* ContentSearchService.search(query, limit): ids of the content collection,
\* which index_content.py fills from the movies table
ContentSearch(limit) == InjSeqs(MetaIds, Min(limit, MaxHits))

----------------------------------------------------------------------------
(* services/recommendation_service.py                                      *)

DefaultScore == 0

\* scores = {r["movie_id"]: r["score"] for r in results}; scores.get(mid, 0.0)
ScoresGet(results, mid) ==
    LET at == {i \in DOMAIN results : results[i].movie_id = mid}
    IN IF at = {} THEN DefaultScore
       ELSE results[CHOOSE i \in at : \A j \in at : j <= i].score

\* _enrich_movies(movie_ids, scores), movie_data being the rows found
EnrichAll(movie_ids, scores, movie_data) ==
    [i \in DOMAIN movie_ids |-> MovieObj(movie_ids[i], ScoresGet(scores, movie_ids[i]))]

RECURSIVE EnrichMovies(_, _, _)
EnrichMovies(movie_ids, scores, movie_data) ==
    IF movie_ids = <<>> THEN <<>>
    ELSE LET mid == Head(movie_ids)
             rest == EnrichMovies(Tail(movie_ids), scores, movie_data)
         IN IF mid \in movie_data
            THEN <<MovieObj(mid, ScoresGet(scores, mid))>> \o rest
            ELSE rest

\* {g.lower() for g in target_genres}
TargetSet(target_genres) == {Lower(target_genres[i]) : i \in DOMAIN target_genres}

\* {g.strip().lower() for g in movie.genres.split("|")}
MovieGenres(m) == {Lower(GenresOf(m)[i]) : i \in DOMAIN GenresOf(m)}

Intersection(m, target) == Cardinality(MovieGenres(m) \cap target)
UnionSize(m, target) == Cardinality(MovieGenres(m) \cup target)

\* (jaccard, original_score) of a is greater than that of b; the quotients
\* are compared by cross-multiplication
KeyGreater(a, b, target) ==
    LET ja == Intersection(a.id, target) * UnionSize(b.id, target)
        jb == Intersection(b.id, target) * UnionSize(a.id, target)
    IN ja > jb \/ (ja = jb /\ a.score > b.score)

\* list.sort(key=..., reverse=True) is stable: equal keys keep their order
RECURSIVE InsertRanked(_, _, _)
InsertRanked(x, sorted, target) ==
    IF sorted = <<>> THEN <<x>>
    ELSE IF KeyGreater(x, Head(sorted), target) THEN <<x>> \o sorted
    ELSE <<Head(sorted)>> \o InsertRanked(x, Tail(sorted), target)

KeepOrder(movies, target) == movies

RECURSIVE SortRanked(_, _)
SortRanked(movies, target) ==
    IF movies = <<>> THEN <<>>
    ELSE InsertRanked(movies[Len(movies)],
                      SortRanked(SubSeq(movies, 1, Len(movies) - 1), target), target)

\* _rank_by_genre_similarity(movies, target_genres)
RankByGenreSimilarity(movies, target_genres) ==
    IF target_genres = <<>> THEN movies
    ELSE LET target == TargetSet(target_genres)
             Matches(movie) == Intersection(movie.id, target) > 0
         IN SortRanked(SelectSeq(movies, Matches), target)

\* [r["movie_id"] for r in results if r["movie_id"] not in selected_movie_ids]
KeepAllIds(results, selected_movie_ids) ==
    [i \in DOMAIN results |-> results[i].movie_id]

FilterSelected(results, selected_movie_ids) ==
    LET NotSelected(r) == r.movie_id \notin SeqIds(selected_movie_ids)
        kept == SelectSeq(results, NotSelected)
    IN [i \in DOMAIN kept |-> kept[i].movie_id]

\* enriched_movies[:top_k]
NoTruncate(movies, top_k) == movies

Truncate(movies, top_k) == SubSeq(movies, 1, Min(top_k, Len(movies)))

\* what a call gave back and what it did
Outcome(out, ret, info) == [out |-> out, ret |-> ret, info |-> info]

\* recommend_cold_start once the seed list is complete: selected is the
\* caller's list extended by the hits of the content search
ColdStartFrom(selected, base, genres, keywords, top_k) ==
    LET withSeeds == [base EXCEPT !.seeds = selected]
        selected_vectors == GetVectorsByIds(selected)
        \* 1. self.vector_repo.get_vectors_by_ids raises
        vectorsFail ==
            IF selected # <<>>
            THEN {Outcome("raised", <<>>, [withSeeds EXCEPT !.path = "cs_error"])}
            ELSE {}
        \* 2. the vector strategy
        vectorPath ==
            LET info == [withSeeds EXCEPT !.path = "cs_vector", !.index_calls = 1,
                                          !.index_limit = top_k * 2]
            IN {Outcome("raised", <<>>, [info EXCEPT !.index_failed = TRUE])}
               \cup UNION {
                 LET recommended_movie_ids == FilterSelected(results, selected)
                     got == [info EXCEPT !.removed = SeqIds(selected) \cap
                                            {results[i].movie_id : i \in DOMAIN results}]
                     enriched_movies ==
                         EnrichMovies(recommended_movie_ids, results,
                                      GetMoviesByIds(recommended_movie_ids))
                     ranked == IF genres # <<>>
                               THEN RankByGenreSimilarity(enriched_movies, genres)
                               ELSE enriched_movies
                 IN IF recommended_movie_ids = <<>>
                    THEN {Outcome("returned", <<>>, got)}
                    ELSE {Outcome("raised", <<>>,
                                  [got EXCEPT !.meta_calls = 1, !.meta_failed = TRUE]),
                          Outcome("returned", Truncate(ranked, top_k),
                                  [got EXCEPT !.meta_calls = 1, !.found = Len(ranked)])}
                 : results \in SearchSimilar(top_k * 2)}
        \* 3. the criteria strategy
        criteriaPath ==
            LET info == [withSeeds EXCEPT !.path = "cs_criteria", !.meta_calls = 1,
                                          !.criteria_calls = 1]
            IN {Outcome("raised", <<>>, [info EXCEPT !.meta_failed = TRUE])}
               \cup UNION {
                 IF candidates = {}
                 THEN {Outcome("returned", <<>>, [info EXCEPT !.path = "cs_empty"])}
                 ELSE {Outcome("raised", <<>>,
                               [info EXCEPT !.meta_calls = 2, !.meta_failed = TRUE])}
                      \cup {Outcome("returned",
                                    [i \in DOMAIN ids |-> Dict(ids[i], NoScore)],
                                    [info EXCEPT !.meta_calls = 2]) :
                            ids \in {seq \in InjSeqs(candidates, top_k) :
                                       Len(seq) = Min(top_k, Cardinality(candidates))}}
                 : candidates \in FindMoviesByCriteria(genres, keywords, CriteriaLimit)}
    IN vectorsFail \cup
       (IF selected_vectors # {} THEN vectorPath
        ELSE IF genres # <<>> \/ keywords # <<>> THEN criteriaPath
        ELSE {Outcome("returned", <<>>, [withSeeds EXCEPT !.path = "cs_empty"])})

\* recommend_cold_start(selected_movie_ids, genres, keywords, query,
\* search_service, top_k); an absent list argument is given as <<>>
RecommendColdStart(selected_movie_ids, genres, keywords, query, search_service, top_k) ==
    LET base == [NoInfo EXCEPT !.seeds_in = selected_movie_ids, !.genres = genres,
                               !.keywords = keywords, !.query = query]
        \* 0. a failed search is logged and adds nothing
        search_ids == IF query # None /\ search_service # None
                      THEN {<<>>} \cup ContentSearch(SearchLimit)
                      ELSE {<<>>}
    IN UNION {ColdStartFrom(selected_movie_ids \o hits, base, genres, keywords, top_k) :
              hits \in search_ids}

\* is_ready
TableLoaded == user_embeddings # None

IsReady == user_embeddings # None /\ user_encoder # None

\* get_user_vector(user_id) is not None
HasUserVector(user_id) == IsReady /\ user_id \in KnownUserIds

\* get_known_user_ids()
GetKnownUserIds == IF ~IsReady THEN {} ELSE KnownUserIds

\* random.sample(population, k): k members at distinct positions, any order
RandomChoices(population, k) ==
    {[i \in 1..k |-> population[pos[i]]] : pos \in [1..k -> DOMAIN population]}

RandomSample(population, k) ==
    {[i \in 1..k |-> population[pos[i]]] : pos \in InjSeqs(DOMAIN population, k) \cap
                                                  [1..k -> DOMAIN population]}

\* search_k = top_k * 2 if ab_group == "treatment" else top_k
SearchKSame(top_k, ab_group) == top_k

SearchK(top_k, ab_group) == IF ab_group = "treatment" THEN top_k * 2 ELSE top_k

\* the body of recommend_for_user(user_id, top_k, ab_group): every exception
\* is caught and answered by []
RecommendForUser(user_id, top_k, ab_group) ==
    IF ~HasUserVector(user_id)
    THEN {Outcome("returned", IF o.out = "returned" THEN o.ret ELSE <<>>,
                  [o.info EXCEPT !.path = "fallback"]) :
            o \in RecommendColdStart(<<>>, <<>>, <<>>, None, None, top_k)}
    ELSE LET search_k == SearchK(top_k, ab_group)
             info == [NoInfo EXCEPT !.path = ab_group, !.known = TRUE,
                                    !.index_calls = 1, !.index_limit = search_k]
         IN {Outcome("returned", <<>>, [info EXCEPT !.index_failed = TRUE])}
            \cup UNION {
              LET sampled == IF ab_group = "treatment" /\ Len(points) > top_k
                             THEN RandomSample(points, top_k)
                             ELSE {points}
                  got == [info EXCEPT !.points = points]
              IN UNION {
                   LET movie_ids == [i \in DOMAIN recommendations |->
                                        recommendations[i].movie_id]
                       took == [got EXCEPT !.sample = recommendations]
                   IN IF movie_ids = <<>>
                      THEN {Outcome("returned", <<>>, took)}
                      ELSE {Outcome("returned", <<>>,
                                    [took EXCEPT !.meta_calls = 1, !.meta_failed = TRUE]),
                            Outcome("returned",
                                    EnrichMovies(movie_ids, recommendations,
                                                 GetMoviesByIds(movie_ids)),
                                    [took EXCEPT !.meta_calls = 1])}
                   : recommendations \in sampled}
              : points \in SearchSimilar(search_k)}

----------------------------------------------------------------------------
(* Calls of the service *)

AbGroups == {"control", "treatment"}

\* service.recommend_for_user(user_id, top_k=.., ab_group=..): a call of the
\* bound method, so the positional arguments the wrapper sees are
\* (self, user_id)
CallRecommendOf(p, user_ids, top_ks, ab_groups) ==
    /\ CanCall(p)
    /\ \E user_id \in user_ids, top_k \in top_ks, ab_group \in ab_groups :
          LET args == <<StrOfSelf, StrOfInt(user_id)>>
          IN frames' = [frames EXCEPT ![p] =
                 [WrapperEnter(@, "recommend_for_user", "rec", DefaultTtl,
                               args[1], user_id, top_k, ab_group)
                  EXCEPT !.has_vector = HasUserVector(user_id)]]
    /\ UNCHANGED <<redis_client, store, now, user_embeddings, user_encoder>>

CallRecommend(p) == CallRecommendOf(p, Args, TopKs, AbGroups)

\* the same request from every worker: GET /recommend/1?top_k=1 with the
\* default variant
SameRequest(p) == CallRecommendOf(p, KnownUserIds, {1}, {"control"})

ComputeRecommend(p) ==
    /\ frames[p].pc = "compute"
    /\ frames[p].fn = "recommend_for_user"
    /\ \E o \in RecommendForUser(frames[p].arg, frames[p].top_k, frames[p].ab_group) :
          frames' = [frames EXCEPT ![p] =
              Respond([AfterCompute(@, o.ret) EXCEPT !.info = o.info])]
    /\ UNCHANGED <<redis_client, store, now, user_embeddings, user_encoder>>

\* requests of the cold-start endpoint and of direct callers
SeedIds == {1, 4}
SeedLists == UNION {[1..k -> SeedIds] : k \in 0..MaxSeeds}
GenreLists == {<<>>, <<"Action">>}
KeywordLists == {<<>>, <<"Star">>}
Queries == {None, "space"}
SearchServices == {None, "ContentSearchService"}

\* service.recommend_cold_start(...): not decorated
ColdStart(p) ==
    /\ CanCall(p)
    /\ \E selected_movie_ids \in SeedLists, genres \in GenreLists,
          keywords \in KeywordLists, query \in Queries,
          search_service \in SearchServices, top_k \in TopKs :
       \E o \in RecommendColdStart(selected_movie_ids, genres, keywords, query,
                                   search_service, top_k) :
          frames' = [frames EXCEPT ![p] =
              [IdleFrame EXCEPT !.fn = "recommend_cold_start", !.top_k = top_k,
                                !.calls = 1, !.out = o.out, !.ret = o.ret,
                                !.info = o.info, !.at = now, !.pc = "done"]]
    /\ UNCHANGED <<redis_client, store, now, user_embeddings, user_encoder>>

\* load_embeddings(): the artifact cannot be read or lacks "user_embeddings"
\* (nothing assigned), lacks "user_encoder" (the table is already assigned),
\* or is complete
LoadOutcomes == {"unreadable", "no_encoder", "ok"}

\* the frame records whether the service was ready before the call
LoadEmbeddingsFrom(p, artifacts) ==
    /\ CanCall(p)
    /\ \E outcome \in LoadOutcomes, artifact \in artifacts :
          /\ user_embeddings' = IF outcome = "unreadable" THEN user_embeddings
                                ELSE artifact
          /\ user_encoder' = IF outcome = "ok" THEN artifact ELSE user_encoder
          /\ frames' = [frames EXCEPT ![p] =
                [IdleFrame EXCEPT !.fn = "load_embeddings", !.ret = <<outcome = "ok">>,
                                  !.input = [ready_before |-> IsReady,
                                             outcome |-> outcome],
                                  !.out = "returned", !.at = now, !.pc = "done"]]
    /\ UNCHANGED <<redis_client, store, now>>

\* the file at settings.embeddings_path stays the same
LoadEmbeddings(p) == LoadEmbeddingsFrom(p, {"artifact"})

\* the file is replaced between loads (a retrained model, a damaged copy)
Artifacts == {"a1", "a2"}

Reload(p) == LoadEmbeddingsFrom(p, Artifacts)

----------------------------------------------------------------------------
(* features.py *)

\* FeatureFlags.ENABLE_AB_TESTING
ENABLE_AB_TESTING == TRUE

\* the arguments of get_user_experiment_group: an int, or a str
IntId(n) == [type |-> "int", int |-> n, str |-> ""]
StrId(text) == [type |-> "str", int |-> 0, str |-> text]

\* str(user_id)
Str(user_id) == IF user_id.type = "int" THEN StrOfInt(user_id.int) ELSE user_id.str

\* the last hexadecimal digit of hashlib.sha256(hash_input).hexdigest(), for
\* the inputs followed here
Sha256LastDigit(hash_input) ==
    CASE hash_input = "" -> 5
      [] hash_input = "1" -> 11
      [] hash_input = "2" -> 5
      [] hash_input = "3" -> 14
      [] hash_input = "4" -> 10
      [] hash_input = "5" -> 13
      [] hash_input = "guest" -> 12

\* get_user_experiment_group(user_id)
GroupByType(user_id) == IF user_id.type = "int" THEN "control" ELSE "treatment"

GetUserExperimentGroup(user_id) ==
    IF ~ENABLE_AB_TESTING THEN "control"
    ELSE LET hash_input == Str(user_id)
             hash_val == Sha256LastDigit(hash_input)
         IN IF hash_val % 2 = 0 THEN "control" ELSE "treatment"

----------------------------------------------------------------------------
(* Direct calls of the helpers and of get_user_experiment_group *)

\* candidate lists: Movie objects of the catalogue with their vector scores
CandScores == {7, 9}
Candidates == {MovieObj(m, sc) : m \in MetaIds, sc \in CandScores}
CandidateLists == UNION {[1..k -> Candidates] : k \in 0..MaxCands}

TargetLists == {<<>>, <<"Action">>, <<"action", "Sci-Fi">>, <<"Comedy", "Drama">>}

\* self._rank_by_genre_similarity(movies, target_genres)
RankCall(p) ==
    /\ CanCall(p)
    /\ \E movies \in CandidateLists, target_genres \in TargetLists :
          frames' = [frames EXCEPT ![p] =
              [IdleFrame EXCEPT !.fn = "_rank_by_genre_similarity",
                                !.input = [movies |-> movies,
                                           target_genres |-> target_genres],
                                !.calls = 1, !.out = "returned",
                                !.ret = RankByGenreSimilarity(movies, target_genres),
                                !.at = now, !.pc = "done"]]
    /\ UNCHANGED <<redis_client, store, now, user_embeddings, user_encoder>>

\* id lists and score dicts given to _enrich_movies; a dict is written as
\* the result list it is built from
IdLists == UNION {[1..k -> MetaIds \cup IndexedIds] : k \in 0..MaxCands}

ScoreDicts ==
    {<<>>,
     <<[movie_id |-> 1, score |-> 9], [movie_id |-> 3, score |-> 8]>>,
     [i \in 1..5 |-> [movie_id |-> i, score |-> 10 - i]]}

\* self._enrich_movies(movie_ids, scores): the metadata store answers or
\* raises
EnrichCall(p) ==
    /\ CanCall(p)
    /\ \E movie_ids \in IdLists, scores \in ScoreDicts, outcome \in Outcomes :
          frames' = [frames EXCEPT ![p] =
              [IdleFrame EXCEPT !.fn = "_enrich_movies",
                                !.input = [movie_ids |-> movie_ids, scores |-> scores],
                                !.calls = 1,
                                !.out = IF outcome = "ok" \/ movie_ids = <<>>
                                        THEN "returned" ELSE "raised",
                                !.ret = IF outcome = "ok" \/ movie_ids = <<>>
                                        THEN EnrichMovies(movie_ids, scores,
                                                          GetMoviesByIds(movie_ids))
                                        ELSE <<>>,
                                !.at = now, !.pc = "done"]]
    /\ UNCHANGED <<redis_client, store, now, user_embeddings, user_encoder>>

\* the subjects of the experiment, as ints and as header / string values
SubjectIds == 1..MaxSubject
Subjects == {IntId(n) : n \in SubjectIds}
            \cup {StrId(StrOfInt(n)) : n \in SubjectIds} \cup {StrId("guest")}

\* get_user_experiment_group(user_id)
ExperimentCall(p) ==
    /\ CanCall(p)
    /\ \E user_id \in Subjects :
          frames' = [frames EXCEPT ![p] =
              [IdleFrame EXCEPT !.fn = "get_user_experiment_group",
                                !.input = user_id,
                                !.calls = 1, !.out = "returned",
                                !.ret = <<GetUserExperimentGroup(user_id)>>,
                                !.at = now, !.pc = "done"]]
    /\ UNCHANGED <<redis_client, store, now, user_embeddings, user_encoder>>

----------------------------------------------------------------------------
(* middleware/middleware.py, main.py: requests *)

\* the middleware create_app adds, and that of the application the
\* middleware's tests build
CreateAppMiddleware == {"CORSMiddleware", "RequestIDMiddleware"}
TestAppMiddleware == {"ABTestingMiddleware"}

\* values of the X-User-ID header: absent, empty, or a text
Headers == {None, ""} \cup {StrOfInt(n) : n \in SubjectIds} \cup {"guest"}

\* ABTestingMiddleware.dispatch: user_id = request.headers.get("X-User-ID");
\* "if user_id:" is false for an absent and for an empty value
AssignControl(x_user_id) == "control"

AssignGroup(x_user_id) ==
    IF x_user_id # None /\ x_user_id # ""
    THEN GetUserExperimentGroup(StrId(x_user_id))
    ELSE "control"

\* what a request carries once it passed the stack: scope["ab_group"] and
\* the X-AB-Group header are set by ABTestingMiddleware only
ThroughStack(middleware, route, x_user_id) ==
    LET installed == "ABTestingMiddleware" \in middleware
        group == AssignGroup(x_user_id)
    IN [NoHttp EXCEPT !.route = route, !.x_user_id = x_user_id,
                      !.installed = installed,
                      !.scope_ab_group = IF installed THEN group ELSE None,
                      !.x_ab_group = IF installed THEN group ELSE None]

\* request.scope.get("ab_group", "control")
ScopeGet(http) == IF http.scope_ab_group # None THEN http.scope_ab_group ELSE "control"

\* GET / of the test application: the endpoint echoes scope["ab_group"]
Homepage(p) ==
    /\ CanCall(p)
    /\ \E x_user_id \in Headers :
          LET http == ThroughStack(TestAppMiddleware, "/", x_user_id)
          IN frames' = [frames EXCEPT ![p] =
                [IdleFrame EXCEPT !.fn = "homepage", !.calls = 1,
                                  !.http = [http EXCEPT !.status = 200,
                                                        !.ab_group = http.scope_ab_group],
                                  !.out = "returned", !.at = now, !.pc = "done"]]
    /\ UNCHANGED <<redis_client, store, now, user_embeddings, user_encoder>>

\* recommend: the two checks before the call; 0 lets the request through
GuardUserFirst(user_id) ==
    IF ~HasUserVector(user_id) THEN 404
    ELSE IF ~IsReady THEN 503
    ELSE 0

EndpointGuard(user_id) ==
    IF ~IsReady THEN 503
    ELSE IF ~HasUserVector(user_id) THEN 404
    ELSE 0

\* GET /recommend/{user_id} of the application of create_app; the client
\* sends no X-User-ID or its own id
Recommend(p) ==
    /\ CanCall(p)
    /\ \E user_id \in Args, top_k \in TopKs :
       \E x_user_id \in {None, StrOfInt(user_id)} :
          LET http == ThroughStack(CreateAppMiddleware, "/recommend/{user_id}", x_user_id)
              status == EndpointGuard(user_id)
              ab_group == ScopeGet(http)
              args == <<StrOfSelf, StrOfInt(user_id)>>
              ready == [ready |-> IsReady]
          IN frames' = [frames EXCEPT ![p] =
                IF status # 0
                THEN [IdleFrame EXCEPT !.fn = "recommend", !.arg = user_id,
                                       !.top_k = top_k, !.input = ready,
                                       !.has_vector = HasUserVector(user_id),
                                       !.http = [http EXCEPT !.status = status],
                                       !.out = "raised", !.at = now, !.pc = "done"]
                ELSE [WrapperEnter(@, "recommend_for_user", "rec", DefaultTtl,
                                   args[1], user_id, top_k, ab_group)
                      EXCEPT !.has_vector = HasUserVector(user_id),
                             !.input = ready, !.http = http]]
    /\ UNCHANGED <<redis_client, store, now, user_embeddings, user_encoder>>

\* ColdStartRequest.has_valid_input()
HasValidInput(selected_movie_ids, genres, keywords) ==
    selected_movie_ids # <<>> \/ genres # <<>> \/ keywords # <<>>

\* what is raised inside the endpoint's try block: the service's exception,
\* or the HTTPException(404) for an empty list; "except Exception" catches
\* both and answers 500
RaisedInTry(o) ==
    IF o.out = "raised" THEN "Exception"
    ELSE IF o.ret = <<>> THEN "HTTPException(404)"
    ELSE None

\* POST /recommend/cold_start
ColdStartEndpoint(p) ==
    /\ CanCall(p)
    /\ \E selected_movie_ids \in SeedLists, genres \in GenreLists,
          keywords \in KeywordLists, query \in Queries, top_k \in TopKs :
          LET http == ThroughStack(CreateAppMiddleware, "/recommend/cold_start", None)
              request == [selected_movie_ids |-> selected_movie_ids, genres |-> genres,
                          keywords |-> keywords, query |-> query]
          IN IF ~HasValidInput(selected_movie_ids, genres, keywords) /\ query = None
             THEN frames' = [frames EXCEPT ![p] =
                     [IdleFrame EXCEPT !.fn = "recommend_cold_start", !.top_k = top_k,
                                       !.input = request,
                                       !.http = [http EXCEPT !.status = 400],
                                       !.out = "raised", !.at = now, !.pc = "done"]]
             ELSE \E o \in RecommendColdStart(selected_movie_ids, genres, keywords,
                                              query, "ContentSearchService", top_k) :
                  frames' = [frames EXCEPT ![p] =
                     [IdleFrame EXCEPT !.fn = "recommend_cold_start", !.top_k = top_k,
                                       !.input = request,
                                       !.calls = 1, !.out = o.out, !.ret = o.ret,
                                       !.info = o.info,
                                       !.http = [http EXCEPT
                                            !.status = IF RaisedInTry(o) # None
                                                       THEN 500 ELSE 200,
                                            !.body = IF RaisedInTry(o) # None
                                                     THEN <<>>
                                                     ELSE RecommendationResponse(o.ret)],
                                       !.at = now, !.pc = "done"]]
    /\ UNCHANGED <<redis_client, store, now, user_embeddings, user_encoder>>

----------------------------------------------------------------------------

Init ==
    /\ redis_client = None
    /\ store = [k \in Keys |-> NoEntry]
    /\ now = 0
    /\ frames = [p \in Procs |-> IdleFrame]
    /\ user_embeddings = None
    /\ user_encoder = None

\* the decorator around a plain function, one caller
NextCache ==
    \/ CallPlain(Main)
    \/ Return(Main)
    \/ CacheRead(Main)
    \/ ComputePlain(Main)
    \/ CacheWrite(Main)
    \/ InvalidateCache(Main)
    \/ Tick

SpecCache == Init /\ [][NextCache]_vars

\* the recommendation service, one caller
Next ==
    \/ LoadEmbeddings(Main)
    \/ CallRecommend(Main)
    \/ Return(Main)
    \/ CacheRead(Main)
    \/ ComputeRecommend(Main)
    \/ CacheWrite(Main)
    \/ ColdStart(Main)
    \/ InvalidateCache(Main)
    \/ Tick

Spec == Init /\ [][Next]_vars

\* the helpers called directly; get_user_experiment_group is called by every
\* worker, at any time
NextPure ==
    \/ RankCall(Main)
    \/ EnrichCall(Main)
    \/ \E p \in Procs : ExperimentCall(p)
    \/ \E p \in Procs : Return(p)
    \/ Tick

SpecPure == Init /\ [][NextPure]_vars

\* the application: the embeddings are loaded and reloaded, requests are
\* served one at a time
NextApp ==
    \/ Reload(Main)
    \/ Homepage(Main)
    \/ Recommend(Main)
    \/ CacheRead(Main)
    \/ ComputeRecommend(Main)
    \/ CacheWrite(Main)
    \/ ColdStartEndpoint(Main)
    \/ InvalidateCache(Main)
    \/ Return(Main)

SpecApp == Init /\ [][NextApp]_vars

\* the recommendation service under two workers of one process: the wrapper
\* holds no lock, so the workers' reads, computations and writes interleave
\* freely
NextConc ==
    \/ LoadEmbeddings(Main)
    \/ InvalidateCache(Main)
    \/ \E p \in Procs : SameRequest(p)
    \/ \E p \in Procs : CacheRead(p)
    \/ \E p \in Procs : ComputeRecommend(p)
    \/ \E p \in Procs : CacheWrite(p)
    \/ \E p \in Procs : Return(p)

SpecConc == Init /\ [][NextConc]_vars

\* the recommendation service, one caller, each entry noting its writer
NextNoted ==
    \/ LoadEmbeddings(Main)
    \/ CallRecommend(Main)
    \/ Return(Main)
    \/ CacheRead(Main)
    \/ ComputeRecommend(Main)
    \/ NotedWrite(Main)
    \/ InvalidateCache(Main)
    \/ Tick

SpecNoted == Init /\ [][NextNoted]_vars

----------------------------------------------------------------------------
(* Properties *)

Wrapped == {"get_recommendations", "recommend_for_user"}
Retrievals == {"recommend_for_user", "recommend_cold_start"}

Done(p, fns) == frames[p].pc = "done" /\ frames[p].fn \in fns

Distinct(seq) == \A i, j \in DOMAIN seq : i # j => seq[i] # seq[j]

\* C1: a call get_recommendations(a) of a function decorated with prefix
\* "rec", made while a client is set and answered by the backend, that finds
\* a live value under "rec:a" ends at once: it returns the stored value
\* decoded, the function has run zero times and the backend's contents are
\* unchanged.
C1_HitReturnsStored ==
    [][\A p \in Procs :
         LET f == frames[p]
             g == frames'[p]
             k == "rec:" \o ToString(f.arg)
         IN (/\ f.pc = "read" /\ g.pc # "read"
             /\ f.fn = "get_recommendations"
             /\ g.read # "error"
             /\ store[k].present /\ now < store[k].expire_at)
            => /\ g.pc = "done" /\ g.out = "returned"
               /\ g.ret = [i \in DOMAIN store[k].payload.json |->
                             [kind |-> "dict", id |-> store[k].payload.json[i].id,
                              score |-> store[k].payload.json[i].score]]
               /\ g.calls = 0 /\ g.write = "none"
               /\ store' = store]_vars

C1_Witness ==
    \E p \in Procs :
       /\ Done(p, {"get_recommendations"})
       /\ frames[p].read = "hit" /\ frames[p].ret # <<>>
       /\ frames[p].calls = 0

\* C2 (as claimed): a call of a decorated function made while a client is
\* set, whose read misses and whose write meets no backend error, runs the
\* function once, stores the result and returns it.
C2_Original ==
    \A p \in Procs :
       LET f == frames[p]
       IN (/\ Done(p, Wrapped) /\ f.client # None
           /\ f.read = "miss" /\ f.write # "error")
          => /\ f.calls = 1
             /\ f.write = "ok"
             /\ f.out = "returned" /\ f.ret = f.result

\* C3 (as claimed): a call of a decorated function whose read or write met a
\* connection or timeout error runs the function once, returns its result
\* and raises nothing.
C3_Original ==
    \A p \in Procs :
       LET f == frames[p]
       IN (Done(p, Wrapped) /\ (f.read = "error" \/ f.write = "error"))
          => /\ f.calls = 1
             /\ f.out = "returned" /\ f.ret = f.result

\* C4 (as claimed): a call recommend_for_user(u) uses the cache key "rec:u".
C4_Original ==
    \A p \in Procs :
       LET f == frames[p]
       IN (f.fn = "recommend_for_user" /\ f.pc # "idle")
          => f.key = "rec:" \o ToString(f.arg)

\* C5 (as claimed): a call recommend_for_user(u) for a user with an
\* embedding that follows, within the TTL and with no backend error, a call
\* for u that computed and returned its result is served from the cache:
\* it queries neither the index nor the metadata store.
C5_Original ==
    \A p \in Procs :
       LET f == frames[p]
       IN (/\ Done(p, {"recommend_for_user"})
           /\ f.has_vector
           /\ f.follows_miss
           /\ f.read # "error")
          => /\ f.read = "hit" /\ f.calls = 0
             /\ f.info.index_calls = 0 /\ f.info.meta_calls = 0

\* C6: whatever recommend_for_user or recommend_cold_start returns, for a
\* bound top_k >= 1, has at most top_k elements.
C6_LengthBound ==
    \A p \in Procs :
       LET f == frames[p]
       IN (Done(p, Retrievals) /\ f.out = "returned")
          => Len(f.ret) <= f.top_k

C6_Witness ==
    \E p \in Procs :
       LET f == frames[p]
       IN /\ Done(p, {"recommend_cold_start"}) /\ f.out = "returned"
          /\ f.info.path = "cs_vector" /\ f.info.genres # <<>>
          /\ f.info.index_limit = 2 * f.top_k
          /\ f.info.found > f.top_k
          /\ Len(f.ret) = f.top_k

\* C7: whatever recommend_for_user or recommend_cold_start returns holds no
\* movie id twice (the index answering each query without repetition).
C7_NoDuplicates ==
    \A p \in Procs :
       LET f == frames[p]
       IN (Done(p, Retrievals) /\ f.out = "returned")
          => Distinct(Ids(f.ret))

C7_Witness ==
    \E p \in Procs :
       LET f == frames[p]
       IN /\ Done(p, {"recommend_for_user"}) /\ f.out = "returned"
          /\ f.ab_group = "treatment"
          /\ Len(f.info.points) > f.top_k
          /\ Len(f.ret) = f.top_k /\ f.top_k >= 2

\* C8 (as claimed): when the index query fails during recommend_for_user
\* for a user with an embedding, the call signals the failure instead of
\* returning a list.
C8_Original ==
    \A p \in Procs :
       LET f == frames[p]
       IN (/\ Done(p, {"recommend_for_user"})
           /\ f.info.known /\ f.info.index_failed)
          => f.out = "raised"

\* C9: recommend_for_user for a user without an embedding (loaded or not),
\* and recommend_cold_start without seeds, genres, keywords and query,
\* return the empty list and raise nothing.
C9_EmptyForNoSignal ==
    \A p \in Procs :
       LET f == frames[p]
           nothing == /\ f.info.seeds_in = <<>> /\ f.info.genres = <<>>
                      /\ f.info.keywords = <<>> /\ f.info.query = None
       IN (\/ Done(p, {"recommend_for_user"}) /\ ~f.has_vector
           \/ Done(p, {"recommend_cold_start"}) /\ nothing)
          => f.out = "returned" /\ f.ret = <<>>

C9_Witness ==
    \E p \in Procs :
       LET f == frames[p]
       IN /\ Done(p, {"recommend_for_user"}) /\ ~f.has_vector
          /\ IsReady /\ f.client # None
          /\ f.info.path = "fallback" /\ f.write = "ok"

\* C10 (as claimed): what a retrieval returns never holds an id of the
\* request's seed list (the caller's ids and those added by the search).
C10_Original ==
    \A p \in Procs :
       LET f == frames[p]
       IN (Done(p, {"recommend_cold_start"}) /\ f.out = "returned")
          => SeqIds(Ids(f.ret)) \cap SeqIds(f.info.seeds) = {}

\* C10 (amended): what recommend_cold_start returns on the vector strategy,
\* taken when a seed has a vector, never holds an id of the seed list (the
\* caller's ids and those added by the search).
C10_NoSeedOnVectorPath ==
    \A p \in Procs :
       LET f == frames[p]
       IN (/\ Done(p, {"recommend_cold_start"}) /\ f.out = "returned"
           /\ f.info.path = "cs_vector")
          => SeqIds(Ids(f.ret)) \cap SeqIds(f.info.seeds) = {}

C10_Witness ==
    \E p \in Procs :
       LET f == frames[p]
       IN /\ Done(p, {"recommend_cold_start"}) /\ f.out = "returned"
          /\ f.info.path = "cs_vector"
          /\ f.info.removed # {} /\ f.ret # <<>>
          /\ Len(f.info.seeds) > Len(f.info.seeds_in)

\* the genres of a candidate and of the target list, in lower case
GenreSetOf(movie) == {Lower(GenresOf(movie.id)[i]) : i \in DOMAIN GenresOf(movie.id)}
TargetSetOf(target_genres) == {Lower(target_genres[i]) : i \in DOMAIN target_genres}

\* |a \cap t| / |a \cup t| >= |b \cap t| / |b \cup t|, and equality
JaccardGeq(a, b, t) ==
    Cardinality(GenreSetOf(a) \cap t) * Cardinality(GenreSetOf(b) \cup t)
        >= Cardinality(GenreSetOf(b) \cap t) * Cardinality(GenreSetOf(a) \cup t)
JaccardEq(a, b, t) == JaccardGeq(a, b, t) /\ JaccardGeq(b, a, t)

Count(seq, x) == Cardinality({i \in DOMAIN seq : seq[i] = x})

\* C11: _rank_by_genre_similarity with a non-empty target list returns the
\* candidates that share a genre with the target (compared in lower case),
\* each as often as it was given, by descending Jaccard similarity and, at
\* equal similarity, by descending vector score.
C11_JaccardRanking ==
    \A p \in Procs :
       LET f == frames[p]
           t == TargetSetOf(f.input.target_genres)
       IN (Done(p, {"_rank_by_genre_similarity"}) /\ f.input.target_genres # <<>>)
          => /\ f.out = "returned"
             /\ \A x \in Candidates :
                   Count(f.ret, x) = IF GenreSetOf(x) \cap t # {}
                                    THEN Count(f.input.movies, x) ELSE 0
             /\ \A i, j \in DOMAIN f.ret :
                   i < j => /\ JaccardGeq(f.ret[i], f.ret[j], t)
                            /\ JaccardEq(f.ret[i], f.ret[j], t)
                                  => f.ret[i].score >= f.ret[j].score

\* target {action, sci-fi}: the candidate Action|Drama (1/3) is kept behind
\* Action|Sci-Fi (1) although its score is higher, Comedy is dropped
C11_Witness ==
    \E p \in Procs :
       LET f == frames[p]
       IN /\ Done(p, {"_rank_by_genre_similarity"})
          /\ f.input.target_genres = <<"action", "Sci-Fi">>
          /\ f.input.movies = <<MovieObj(5, 9), MovieObj(2, 9), MovieObj(1, 7)>>
          /\ f.ret = <<MovieObj(1, 7), MovieObj(5, 9)>>

\* C12: _enrich_movies returns, in the order of the given ids, one Movie for
\* each id that has a metadata row and none for the others; each Movie
\* carries the score the dict holds for its id, 0.0 when it holds none.
C12_EnrichPreservesOrder ==
    \A p \in Procs :
       LET f == frames[p]
           HasRow(mid) == mid \in MetaIds
           kept == SelectSeq(f.input.movie_ids, HasRow)
           Scored(mid) == {i \in DOMAIN f.input.scores : f.input.scores[i].movie_id = mid}
       IN (Done(p, {"_enrich_movies"}) /\ f.out = "returned")
          => /\ Ids(f.ret) = kept
             /\ \A i \in DOMAIN f.ret :
                   /\ f.ret[i].kind = "Movie"
                   /\ IF Scored(f.ret[i].id) = {} THEN f.ret[i].score = 0
                      ELSE \E k \in Scored(f.ret[i].id) :
                              f.ret[i].score = f.input.scores[k].score

C12_Witness ==
    \E p \in Procs :
       LET f == frames[p]
       IN /\ Done(p, {"_enrich_movies"}) /\ f.out = "returned"
          /\ f.input.movie_ids = <<5, 3, 1>>
          /\ Len(f.input.scores) = 2
          /\ f.ret = <<MovieObj(5, 0), MovieObj(1, 9)>>

Served(p, route) == frames[p].pc = "done" /\ frames[p].http.route = route

C15_Original ==
    \A p \in Procs :
       LET f == frames[p]
       IN (/\ Served(p, "/recommend/{user_id}") /\ f.http.status = 200
           /\ f.http.x_user_id = ToString(f.arg))
          => /\ f.ab_group = GetUserExperimentGroup(IntId(f.arg))
             /\ f.http.ab_group = GetUserExperimentGroup(IntId(f.arg))

\* C16: a load that fails on a service that was not ready returns False and
\* raises nothing; afterwards is_ready is False, no user has a vector and
\* the list of known users is empty.
C16_FailedLoadNotReady ==
    \A p \in Procs :
       LET f == frames[p]
       IN (/\ Done(p, {"load_embeddings"})
           /\ ~f.input.ready_before /\ f.input.outcome # "ok")
          => /\ f.out = "returned" /\ f.ret = <<FALSE>>
             /\ ~IsReady
             /\ \A user_id \in Args : ~HasUserVector(user_id)
             /\ GetKnownUserIds = {}

C16_Witness ==
    \E p \in Procs :
       LET f == frames[p]
       IN /\ Done(p, {"load_embeddings"})
          /\ ~f.input.ready_before /\ f.input.outcome = "no_encoder"
          /\ user_embeddings # None /\ user_encoder = None

\* C17 (as claimed): whenever the service is ready, its embedding table and
\* its id mapping were read from the same artifact.
C17_Original == IsReady => user_embeddings = user_encoder

\* C18: GET /recommend/u is answered 503 exactly when the service is not
\* ready, 404 exactly when it is ready and u has no embedding; in both
\* cases recommend_for_user is not called and the cache is neither read nor
\* written; otherwise the decorated call is made.
C18_GuardsBeforeRetrieval ==
    \A p \in Procs :
       LET f == frames[p]
           guarded == f.http.status \in {503, 404}
       IN Served(p, "/recommend/{user_id}")
          => /\ f.http.status = 503 <=> ~f.input.ready
             /\ f.http.status = 404 <=> (f.input.ready /\ f.arg \notin KnownUserIds)
             /\ guarded => /\ f.fn # "recommend_for_user" /\ f.calls = 0
                            /\ f.read = "none" /\ f.write = "none"
                            /\ f.info.index_calls = 0 /\ f.info.meta_calls = 0
             /\ ~guarded => /\ f.fn = "recommend_for_user"
                             /\ f.http.status \in {200, 500}
                             /\ (f.read = "hit" \/ f.calls = 1)

C18_Witness ==
    \E p \in Procs :
       LET f == frames[p]
       IN /\ Served(p, "/recommend/{user_id}") /\ f.http.status = 404
          /\ redis_client # None /\ f.input.ready

\* C19 (as claimed): POST /recommend/cold_start with a usable input is
\* answered 200 when the service returns a non-empty list, 404 when it
\* returns the empty list, and 500 only when the service raises.
C19_Original ==
    \A p \in Procs :
       LET f == frames[p]
       IN (Served(p, "/recommend/cold_start") /\ f.calls = 1)
          => /\ (f.out = "returned" /\ f.ret # <<>>) => f.http.status = 200
             /\ (f.out = "returned" /\ f.ret = <<>>) => f.http.status = 404
             /\ f.http.status = 500 => f.out = "raised"

\* C20: invalidate_cache(prefix, id) raises nothing and returns True exactly
\* when a client is available, the backend answers and a live entry was
\* stored under "prefix:id"; after True the key holds no entry, and a key
\* without a live entry gets one only by a write of the decorator.
C20_InvalidateReturnsDeleted ==
    [][/\ \A p \in Procs :
            LET g == frames'[p]
                k == "rec:" \o ToString(g.arg)
            IN (frames[p].pc = "idle" /\ g.fn = "invalidate_cache")
               => /\ g.pc = "done" /\ g.out = "returned"
                  /\ g.ret[1] <=> /\ redis_client' # None /\ g.write = "ok"
                                   /\ store[k].present /\ now < store[k].expire_at
                  /\ g.ret[1] => ~store'[k].present
       /\ \A k \in Keys :
            (~Live(k) /\ store'[k].present /\ now' < store'[k].expire_at)
               => \E p \in Procs : /\ frames[p].pc = "write" /\ frames[p].key = k
                                    /\ frames'[p].write = "ok"]_vars

C20_Witness ==
    \E p \in Procs :
       LET f == frames[p]
       IN /\ Done(p, {"invalidate_cache"}) /\ f.ret = <<TRUE>>
          /\ f.input.existed /\ ~Live(f.key)

\* a call of recommend_for_user whose body ran for a user with an embedding
BodyRan(p) ==
    /\ Done(p, {"recommend_for_user"})
    /\ frames[p].has_vector /\ frames[p].calls = 1

PointIds(points) == {points[i].movie_id : i \in DOMAIN points}

\* C21 (as claimed): for a user with an embedding the index is queried once,
\* with limit top_k (control) or 2 * top_k (treatment); when the index
\* answers, a treatment call that got more than top_k candidates returns
\* top_k distinct ones of them, and a call that got top_k or fewer returns
\* them all.
C21_Original ==
    \A p \in Procs :
       LET f == frames[p]
           many == f.ab_group = "treatment" /\ Len(f.info.points) > f.top_k
       IN BodyRan(p)
          => /\ f.info.index_calls = 1
             /\ f.info.index_limit = IF f.ab_group = "treatment" THEN 2 * f.top_k
                                      ELSE f.top_k
             /\ (~f.info.index_failed /\ f.out = "returned")
                  => /\ Distinct(Ids(f.ret))
                     /\ SeqIds(Ids(f.ret)) \subseteq PointIds(f.info.points)
                     /\ many => Len(f.ret) = f.top_k
                     /\ ~many => SeqIds(Ids(f.ret)) = PointIds(f.info.points)

\* C21 (amended): for a user with an embedding the index is queried once,
\* with limit top_k (control) or 2 * top_k (treatment); a treatment call
\* that got more than top_k candidates samples top_k distinct ones of them,
\* any other call takes them all; the movies a call returns are those of
\* the sample that have a metadata row, and the empty list when the index
\* or the metadata store fails.
C21_IndexQueryAndSample ==
    \A p \in Procs :
       LET f == frames[p]
           many == f.ab_group = "treatment" /\ Len(f.info.points) > f.top_k
       IN BodyRan(p)
          => /\ f.info.index_calls = 1
             /\ f.info.index_limit = IF f.ab_group = "treatment" THEN 2 * f.top_k
                                      ELSE f.top_k
             /\ many => /\ Len(f.info.sample) = f.top_k
                         /\ Distinct(f.info.sample)
                         /\ PointIds(f.info.sample) \subseteq PointIds(f.info.points)
             /\ (~many /\ ~f.info.index_failed) => f.info.sample = f.info.points
             /\ (f.info.index_failed \/ f.info.meta_failed) => f.ret = <<>>
             /\ (~f.info.index_failed /\ ~f.info.meta_failed /\ f.out = "returned")
                  => /\ Distinct(Ids(f.ret))
                     /\ SeqIds(Ids(f.ret)) = PointIds(f.info.sample) \cap MetaIds

C21_Witness ==
    \E p \in Procs :
       LET f == frames[p]
       IN /\ BodyRan(p) /\ f.ab_group = "treatment"
          /\ f.info.index_limit = 2 * f.top_k
          /\ Len(f.info.points) = 2 * f.top_k
          /\ Len(f.info.sample) = f.top_k
          /\ 3 \in PointIds(f.info.sample)
          /\ f.out = "returned" /\ Len(f.ret) = f.top_k - 1

\* C22 (as claimed): what recommend_for_user returns for a user with an
\* embedding is in the order of the index's answer, by descending score, in
\* the control and in the treatment variant.
C22_Original ==
    \A p \in Procs :
       LET f == frames[p]
       IN (BodyRan(p) /\ f.out = "returned")
          => \A i, j \in DOMAIN f.ret : i < j => f.ret[i].score >= f.ret[j].score

C24_Original ==
    \A p, q \in Procs :
       LET f == frames[p]
           g == frames[q]
       IN (/\ p # q
           /\ Done(p, Wrapped) /\ Done(q, Wrapped)
           /\ f.key = g.key
           /\ f.read = "miss" /\ g.read = "miss")
          => /\ f.calls = 1 /\ f.out = "returned" /\ f.ret = f.result
             /\ g.calls = 1 /\ g.out = "returned" /\ g.ret = g.result
             /\ (f.write = "ok" /\ g.write = "ok")
                  => /\ store[f.key].present
                     /\ store[f.key].payload \in {JsonDumps(f.result), JsonDumps(g.result)}

\* C25: every write sets the entry to expire ttl_seconds (300) after the
\* time of that write, whatever was there before; a read is a hit only
\* before the expiry of the entry it reads, i.e. less than 300 seconds
\* after the most recent write under the key, and it returns that entry;
\* an answered read of an expired entry is a miss and the call goes on to
\* compute.
C25_TtlFromLastWrite ==
    [][\A p \in Procs :
         LET f == frames[p]
             g == frames'[p]
         IN /\ \A k \in Keys :
                  (store'[k] # store[k] /\ store'[k].present)
                     => store'[k].expire_at = now + DefaultTtl
            /\ (f.pc = "read" /\ g.read = "hit")
                  => /\ store[f.key].present
                     /\ now - (store[f.key].expire_at - DefaultTtl) < DefaultTtl
                     /\ g.ret = JsonLoads(store[f.key].payload)
                     /\ g.calls = 0
            /\ (/\ f.pc = "read" /\ g.pc # "read" /\ g.read # "error"
                /\ store[f.key].present /\ now >= store[f.key].expire_at)
                  => g.read = "miss" /\ g.pc = "compute"
            /\ (f.pc = "compute" /\ g.pc # "compute") => g.calls = 1
      ]_vars

C25_Witness ==
    \E p \in Procs :
       LET f == frames[p]
       IN /\ f.fn = "get_recommendations" /\ f.pc = "write"
          /\ f.read = "miss" /\ f.calls = 1
          /\ store[f.key].present
          /\ now >= store[f.key].expire_at
          /\ f.result # JsonLoads(store[f.key].payload)

\* C26 (as claimed): a call recommend_for_user(u) served from the cache
\* returns an entry that was computed for u.
C26_Original ==
    [][\A p \in Procs :
         (/\ frames[p].fn = "recommend_for_user" /\ frames[p].pc = "read"
          /\ frames'[p].read = "hit")
            => store[frames[p].key].by.arg = frames[p].arg
      ]_vars

\* C27 (as claimed): the empty list that recommend_for_user gives on a
\* degraded path (the index or the metadata store failed, or the user has
\* no embedding) is not written to the cache.
C27_Original ==
    \A p \in Procs :
       LET f == frames[p]
       IN (/\ Done(p, {"recommend_for_user"}) /\ f.calls = 1
           /\ \/ f.info.path = "fallback"
              \/ f.info.index_failed
              \/ f.info.meta_failed)
          => f.write # "ok"

\* C28 (as claimed): a call recommend_for_user served from the cache
\* returns an entry that was computed for the same top_k and the same
\* variant.
C28_Original ==
    [][\A p \in Procs :
         (/\ frames[p].fn = "recommend_for_user" /\ frames[p].pc = "read"
          /\ frames'[p].read = "hit")
            => /\ store[frames[p].key].by.top_k = frames[p].top_k
               /\ store[frames[p].key].by.ab_group = frames[p].ab_group
      ]_vars

\* C29 (as claimed): a call of a decorated function that ran the function
\* returns the function's result and raises nothing, whatever happened
\* to the read and to the write.
C29_Original ==
    \A p \in Procs :
       LET f == frames[p]
       IN (Done(p, Wrapped) /\ f.calls = 1)
          => /\ f.out = "returned"
             /\ f.ret = f.result
             /\ f.write \in {"none", "ok", "error"}

\* C30 (as claimed): after a cold-start request has been served, the
\* request's selected_movie_ids holds what it held when the request came
\* in.
C30_Original ==
    \A p \in Procs :
       LET f == frames[p]
       IN (Served(p, "/recommend/cold_start") /\ f.calls = 1)
          => f.info.seeds = f.input.selected_movie_ids

====
